---- MODULE Spec2Model ----
(***************************************************************************)
(* ps-mbuf: Mbuf<'lt, M, D>, a #[repr(C)] header (metadata: M, length:     *)
(* usize) overlaid on caller-owned bytes, followed by `length` elements of *)
(* D at the first address after the header that is aligned for D.          *)
(*                                                                         *)
(* Memory is modelled byte by byte.  A value of M or D is the sequence of  *)
(* bytes of its native representation; the length field is encoded in     *)
(* host byte order.  The target is a 16-bit one (target_pointer_width =    *)
(* "16"), so that the whole usize range can be enumerated.                 *)
(***************************************************************************)
EXTENDS Integers, Sequences, FiniteSets, TLC

VARIABLES
    tyM,              \* layout of the generic parameter M: [size, align]
    tyD,              \* layout of the generic parameter D: [size, align]
    overflow_checks,  \* build profile: TRUE (debug) or FALSE (release)
    mem,              \* the caller's region: address -> byte
    rec,              \* address of the live record (&mut Mbuf), or NoRecord
    call              \* the last call: its name, arguments and result

vars == <<tyM, tyD, overflow_checks, mem, rec, call>>

----------------------------------------------------------------------------
(* Bounds of the model. *)

MaxLen == 2          \* longest data slice written
RegionSize == 18     \* bytes of the caller's region
MaxOffset == 13      \* largest byte offset of a record in the region
AddrSpan == 12       \* align is tried on the lowest and highest AddrSpan+1 addresses
MaxAlignExp == 3     \* align is tried with alignments 2^0 .. 2^MaxAlignExp

----------------------------------------------------------------------------
(* The target: usize. *)

UsizeBits == 16
UsizeSize == UsizeBits \div 8
UsizeAlign == UsizeSize
ByteRange == 256

RECURSIVE Pow(_, _)
Pow(b, e) == IF e = 0 THEN 1 ELSE b * Pow(b, e - 1)

UsizeRange == Pow(2, UsizeBits)
UsizeMax == UsizeRange - 1

NoRecord == -1

(* A usize operation's outcome: it panics (overflow-checks on), or yields  *)
(* val; overflow records that the mathematical result left the range.      *)
Done(v) == [panic |-> FALSE, overflow |-> FALSE, val |-> v]

usize_add(a, b, checks) ==
    IF a + b > UsizeMax
    THEN [panic |-> checks, overflow |-> TRUE, val |-> (a + b) % UsizeRange]
    ELSE Done(a + b)

usize_sub(a, b, checks) ==
    IF a - b < 0
    THEN [panic |-> checks, overflow |-> TRUE, val |-> (a - b) % UsizeRange]
    ELSE Done(a - b)

(* `address + align_size - remainder`: two usize operations, left to right *)
usize_add_sub(a, b, c, checks) ==
    LET s == usize_add(a, b, checks) IN
    IF s.panic THEN s
    ELSE LET d == usize_sub(s.val, c, checks) IN
         [panic |-> d.panic, overflow |-> s.overflow \/ d.overflow, val |-> d.val]

(* align with the remainder taken off instead of the rest of the alignment *)
(* being added                                                            *)
align_round_down(address, align_size, checks) ==
    Done(address - (address % align_size))

(* const fn align<T>(address: usize) -> *const T, align_size = align_of::<T>() *)
align(address, align_size, checks) ==
    LET remainder == address % align_size IN
    IF remainder = 0
    THEN Done(address)
    ELSE usize_add_sub(address, align_size, remainder, checks)

----------------------------------------------------------------------------
(* Layout of #[repr(C)] struct Mbuf { metadata: M, length: usize, _marker } *)

Max(a, b) == IF a >= b THEN a ELSE b

(* the least multiple of k that is >= n (layout arithmetic of the compiler) *)
RoundUp(n, k) == ((n + k - 1) \div k) * k

TypeLayouts ==
    { [size |-> 1, align |-> 1], [size |-> 2, align |-> 2], [size |-> 4, align |-> 4] }

MetadataOffset == 0
LengthOffset == RoundUp(tyM.size, UsizeAlign)
MbufAlign == Max(tyM.align, UsizeAlign)
(* the header's size without the padding that follows the length field *)
MbufSize_no_tail_padding == LengthOffset + UsizeSize

MbufSize == RoundUp(LengthOffset + UsizeSize, MbufAlign)

----------------------------------------------------------------------------
(* Bytes. *)

(* The caller's region lies at the top of the address space: its last byte *)
(* is the byte before the last address, so that one past its end is still  *)
(* an address.                                                             *)
RegionBase == UsizeMax - RegionSize

Addresses == RegionBase .. (RegionBase + RegionSize - 1)

read_bytes(mm, a, n) == [i \in 1..n |-> mm[a + i - 1]]

write_bytes(mm, a, bs) ==
    [x \in DOMAIN mm |-> IF a <= x /\ x < a + Len(bs) THEN bs[x - a + 1] ELSE mm[x]]

(* usize in host byte order (little-endian) *)
usize_to_ne_bytes(n) == [i \in 1..UsizeSize |-> (n \div Pow(ByteRange, i - 1)) % ByteRange]

RECURSIVE usize_from_ne_bytes(_)
usize_from_ne_bytes(bs) ==
    IF bs = <<>> THEN 0
    ELSE bs[1] + ByteRange * usize_from_ne_bytes(Tail(bs))

RECURSIVE Flatten(_)
Flatten(ss) == IF ss = <<>> THEN <<>> ELSE ss[1] \o Flatten(Tail(ss))

----------------------------------------------------------------------------
(* impl Mbuf: accessors.  mm is the memory, h the address &self points to. *)

get_metadata(mm, h) == read_bytes(mm, h + MetadataOffset, tyM.size)

len(mm, h) == usize_from_ne_bytes(read_bytes(mm, h + LengthOffset, UsizeSize))

is_empty_negated(mm, h) == len(mm, h) # 0

is_empty(mm, h) == len(mm, h) = 0

(* a replace that returns the value it has just stored *)
set_metadata_returns_new(mm, h, metadata) ==
    [mem |-> write_bytes(mm, h + MetadataOffset, metadata), ret |-> metadata]

(* std::mem::replace(&mut self.metadata, metadata): the memory afterwards  *)
(* and the value returned                                                  *)
set_metadata(mm, h, metadata) ==
    [mem |-> write_bytes(mm, h + MetadataOffset, metadata),
     ret |-> read_bytes(mm, h + MetadataOffset, tyM.size)]

(* Deref::deref: from_raw_parts(align::<D>(ptr as usize + size_of::<Self>()), *)
(* self.length), as the slice's pointer and length                          *)
deref(mm, h, checks) ==
    LET address == usize_add(h, MbufSize, checks) IN
    IF address.panic
    THEN [panic |-> TRUE, overflow |-> TRUE, ptr |-> 0, len |-> 0]
    ELSE LET a == align(address.val, tyD.align, checks) IN
         [panic |-> a.panic, overflow |-> address.overflow \/ a.overflow,
          ptr |-> a.val, len |-> len(mm, h)]

(* a deref_mut that does not align the address after the header *)
deref_mut_unaligned(mm, h, checks) ==
    [panic |-> FALSE, overflow |-> FALSE, ptr |-> h + MbufSize, len |-> len(mm, h)]

deref_mut(mm, h, checks) == deref(mm, h, checks)

to_slice(mm, h, checks) == deref(mm, h, checks)

to_slice_mut(mm, h, checks) == deref_mut(mm, h, checks)

as_ref(mm, h, checks) == deref(mm, h, checks)

as_mut(mm, h, checks) == deref_mut(mm, h, checks)

(* the elements a slice [ptr, len] of D denotes *)
slice_elements(mm, s) ==
    [i \in 1..s.len |-> read_bytes(mm, s.ptr + (i - 1) * tyD.size, tyD.size)]

(* slice[i] = v, i counted from 0 *)
slice_store(mm, s, i, v) == write_bytes(mm, s.ptr + i * tyD.size, v)

(* <[D]>::copy_from_slice *)
copy_from_slice(mm, s, data) == write_bytes(mm, s.ptr, Flatten(data))

----------------------------------------------------------------------------
(* impl Mbuf: placement.  Each yields the address its reference points to. *)

ptr_add_ignores_offset(pointer, offset) == pointer

ptr_add(pointer, offset) == pointer + offset

at_ptr(pointer) == pointer

at_ptr_mut(pointer) == pointer

at_offset(pointer, offset) == ptr_add(pointer, offset)

at_offset_mut(pointer, offset) == ptr_add(pointer, offset)

(* an init_at_ptr that also clears the first byte after the header *)
init_at_ptr_clears_data(mm, pointer, metadata, length) ==
    LET m1 == write_bytes(mm, pointer + MetadataOffset, metadata)
        m2 == write_bytes(m1, pointer + LengthOffset, usize_to_ne_bytes(length))
    IN  [mem |-> write_bytes(m2, pointer + MbufSize, <<0>>), ret |-> pointer]

(* mbuf.metadata = metadata; mbuf.length = length *)
init_at_ptr(mm, pointer, metadata, length) ==
    LET mbuf == at_ptr_mut(pointer)
        m1 == write_bytes(mm, mbuf + MetadataOffset, metadata)
    IN  [mem |-> write_bytes(m1, mbuf + LengthOffset, usize_to_ne_bytes(length)),
         ret |-> mbuf]

init_at_offset(mm, pointer, offset, metadata, length) ==
    init_at_ptr(mm, ptr_add(pointer, offset), metadata, length)

(* The result also says whether the call panicked (then ret is no record). *)
write_to_ptr_mut(mm, pointer, metadata, data, checks) ==
    LET i == init_at_ptr(mm, pointer, metadata, Len(data))
        s == deref_mut(i.mem, i.ret, checks)
    IN  IF s.panic \/ s.len # Len(data)
        THEN [mem |-> i.mem, ret |-> NoRecord, panic |-> TRUE]
        ELSE [mem |-> copy_from_slice(i.mem, s, data), ret |-> i.ret, panic |-> FALSE]

write_to_ptr(mm, pointer, metadata, data, checks) ==
    write_to_ptr_mut(mm, pointer, metadata, data, checks)

write_to_offset_mut(mm, pointer, offset, metadata, data, checks) ==
    write_to_ptr_mut(mm, ptr_add(pointer, offset), metadata, data, checks)

write_to_offset(mm, pointer, offset, metadata, data, checks) ==
    write_to_offset_mut(mm, pointer, offset, metadata, data, checks)

----------------------------------------------------------------------------
(* What the callers pass. *)

MetaVals == { [i \in 1..tyM.size |-> 16 + i], [i \in 1..tyM.size |-> 32 + i] }

DataVals == { [i \in 1..tyD.size |-> 160 + i], [i \in 1..tyD.size |-> 176 + i] }

DataSeqs == UNION { [1..n -> DataVals] : n \in 0..MaxLen }

(* what the region holds before the record is placed: every byte differs *)
InitByte(i) == 200 + i

BytePointers == RegionBase .. (RegionBase + MaxOffset)

(* the pointer of the _offset calls: the region's first byte, or the next *)
OffsetBases == {RegionBase, RegionBase + 1}

(* The safety contract of init_at_ptr and write_to_ptr_mut: the pointer is  *)
(* aligned as an Mbuf and the region holds the header, the padding and      *)
(* length elements of D.                                                    *)
Fits(pointer, length) ==
    /\ pointer >= RegionBase
    /\ pointer % MbufAlign = 0
    /\ RoundUp(pointer + MbufSize, tyD.align) + length * tyD.size <= RegionBase + RegionSize

NoArg == <<>>

Call(op, pointer, offset, metadata, data, length, ret) ==
    [op |-> op, pointer |-> pointer, offset |-> offset, metadata |-> metadata,
     data |-> data, length |-> length, ret |-> ret]

NoCall == Call("none", 0, 0, NoArg, NoArg, 0, NoArg)

Init ==
    /\ tyM \in TypeLayouts
    /\ tyD \in TypeLayouts
    /\ overflow_checks \in BOOLEAN
    /\ mem = [a \in Addresses |-> InitByte(a - RegionBase)]
    /\ rec = NoRecord
    /\ call = NoCall

----------------------------------------------------------------------------
(* The calls.  The region is handed to one record: it is initialized once,  *)
(* by one of the six initializing calls, and used through the reference    *)
(* from then on.                                                           *)

InitAtPtr(p, m, n) ==
    /\ Fits(p, n)
    /\ LET r == init_at_ptr(mem, p, m, n) IN
       /\ mem' = r.mem
       /\ rec' = r.ret
       /\ call' = Call("init_at_ptr", p, 0, m, NoArg, n, r.ret)
    /\ UNCHANGED <<tyM, tyD, overflow_checks>>

InitAtOffset(p, o, m, n) ==
    /\ Fits(p + o, n)
    /\ LET r == init_at_offset(mem, p, o, m, n) IN
       /\ mem' = r.mem
       /\ rec' = r.ret
       /\ call' = Call("init_at_offset", p, o, m, NoArg, n, r.ret)
    /\ UNCHANGED <<tyM, tyD, overflow_checks>>

WriteToPtrMut(p, m, d) ==
    /\ Fits(p, Len(d))
    /\ LET r == write_to_ptr_mut(mem, p, m, d, overflow_checks) IN
       /\ mem' = r.mem
       /\ rec' = r.ret
       /\ call' = Call("write_to_ptr_mut", p, 0, m, d, Len(d), r.ret)
    /\ UNCHANGED <<tyM, tyD, overflow_checks>>

WriteToPtr(p, m, d) ==
    /\ Fits(p, Len(d))
    /\ LET r == write_to_ptr(mem, p, m, d, overflow_checks) IN
       /\ mem' = r.mem
       /\ rec' = r.ret
       /\ call' = Call("write_to_ptr", p, 0, m, d, Len(d), r.ret)
    /\ UNCHANGED <<tyM, tyD, overflow_checks>>

WriteToOffsetMut(p, o, m, d) ==
    /\ Fits(p + o, Len(d))
    /\ LET r == write_to_offset_mut(mem, p, o, m, d, overflow_checks) IN
       /\ mem' = r.mem
       /\ rec' = r.ret
       /\ call' = Call("write_to_offset_mut", p, o, m, d, Len(d), r.ret)
    /\ UNCHANGED <<tyM, tyD, overflow_checks>>

WriteToOffset(p, o, m, d) ==
    /\ Fits(p + o, Len(d))
    /\ LET r == write_to_offset(mem, p, o, m, d, overflow_checks) IN
       /\ mem' = r.mem
       /\ rec' = r.ret
       /\ call' = Call("write_to_offset", p, o, m, d, Len(d), r.ret)
    /\ UNCHANGED <<tyM, tyD, overflow_checks>>

(* at_ptr / at_ptr_mut on the address of the record that was initialized *)
AtPtr(p) ==
    /\ p = rec
    /\ rec' = at_ptr(p)
    /\ call' = Call("at_ptr", p, 0, NoArg, NoArg, 0, at_ptr(p))
    /\ UNCHANGED <<tyM, tyD, overflow_checks, mem>>

AtOffset(p, o) ==
    /\ p + o = rec
    /\ rec' = at_offset(p, o)
    /\ call' = Call("at_offset", p, o, NoArg, NoArg, 0, at_offset(p, o))
    /\ UNCHANGED <<tyM, tyD, overflow_checks, mem>>

GetMetadata ==
    /\ call' = Call("get_metadata", rec, 0, NoArg, NoArg, 0, get_metadata(mem, rec))
    /\ UNCHANGED <<tyM, tyD, overflow_checks, mem, rec>>

SetMetadata(m) ==
    /\ LET r == set_metadata(mem, rec, m) IN
       /\ mem' = r.mem
       /\ call' = [op |-> "set_metadata", pointer |-> rec, metadata |-> m, ret |-> r.ret,
                   again |-> call.op = "set_metadata"]  \* again: it follows a set_metadata
    /\ UNCHANGED <<tyM, tyD, overflow_checks, rec>>

LenCall ==
    /\ call' = Call("len", rec, 0, NoArg, NoArg, 0, len(mem, rec))
    /\ UNCHANGED <<tyM, tyD, overflow_checks, mem, rec>>

IsEmpty ==
    /\ call' = Call("is_empty", rec, 0, NoArg, NoArg, 0, is_empty(mem, rec))
    /\ UNCHANGED <<tyM, tyD, overflow_checks, mem, rec>>

(* to_slice, and reading the elements of the slice it returns *)
ToSlice ==
    /\ LET s == to_slice(mem, rec, overflow_checks) IN
       /\ ~s.panic
       /\ call' = Call("to_slice", rec, 0, NoArg, NoArg, 0, slice_elements(mem, s))
    /\ UNCHANGED <<tyM, tyD, overflow_checks, mem, rec>>

(* to_slice_mut()[i] = v; an index past the slice's length panics *)
SliceStore(i, v) ==
    /\ LET s == to_slice_mut(mem, rec, overflow_checks) IN
       /\ ~s.panic
       /\ i < s.len
       /\ mem' = slice_store(mem, s, i, v)
       /\ call' = Call("to_slice_mut", rec, i, NoArg, <<v>>, 0, s.ptr)
    /\ UNCHANGED <<tyM, tyD, overflow_checks, rec>>

Next ==
    \/ rec = NoRecord /\ \E p \in BytePointers, m \in MetaVals, n \in 0..MaxLen : InitAtPtr(p, m, n)
    \/ rec = NoRecord /\ \E p \in OffsetBases, o \in 0..MaxOffset, m \in MetaVals, n \in 0..MaxLen :
          InitAtOffset(p, o, m, n)
    \/ rec = NoRecord /\ \E p \in BytePointers, m \in MetaVals, d \in DataSeqs : WriteToPtrMut(p, m, d)
    \/ rec = NoRecord /\ \E p \in BytePointers, m \in MetaVals, d \in DataSeqs : WriteToPtr(p, m, d)
    \/ rec = NoRecord /\ \E p \in OffsetBases, o \in 0..MaxOffset, m \in MetaVals, d \in DataSeqs :
          WriteToOffsetMut(p, o, m, d)
    \/ rec = NoRecord /\ \E p \in OffsetBases, o \in 0..MaxOffset, m \in MetaVals, d \in DataSeqs :
          WriteToOffset(p, o, m, d)
    \/ rec # NoRecord /\ \E p \in BytePointers : AtPtr(p)
    \/ rec # NoRecord /\ \E p \in OffsetBases, o \in 0..MaxOffset : AtOffset(p, o)
    \/ rec # NoRecord /\ GetMetadata
    \/ rec # NoRecord /\ \E m \in MetaVals : SetMetadata(m)
    \/ rec # NoRecord /\ LenCall
    \/ rec # NoRecord /\ IsEmpty
    \/ rec # NoRecord /\ ToSlice
    \/ rec # NoRecord /\ \E i \in 0..(MaxLen - 1), v \in DataVals : SliceStore(i, v)

Spec == Init /\ [][Next]_vars

----------------------------------------------------------------------------
(* align on its own: align::<D> is applied to addresses at both ends of the *)
(* usize range, for every alignment a type D can have.                     *)

Alignments == { Pow(2, e) : e \in 0..MaxAlignExp }

AlignAddresses == (0 .. AddrSpan) \cup ((UsizeMax - AddrSpan) .. UsizeMax)

AlignCall(address) ==
    call' = [op |-> "align", address |-> address, align_size |-> tyD.align,
             ret |-> align(address, tyD.align, overflow_checks)]

(* align::<D>(address) *)
Align(address) ==
    /\ AlignCall(address)
    /\ UNCHANGED <<tyM, tyD, overflow_checks, mem, rec>>

(* align::<D> applied to the address the last call returned *)
AlignAgain ==
    /\ call.op = "align"
    /\ ~call.ret.panic
    /\ AlignCall(call.ret.val)
    /\ UNCHANGED <<tyM, tyD, overflow_checks, mem, rec>>

InitAlign ==
    /\ tyM = [size |-> 1, align |-> 1]
    /\ tyD \in { [size |-> k, align |-> k] : k \in Alignments }
    /\ overflow_checks \in BOOLEAN
    /\ mem = [a \in Addresses |-> InitByte(a - RegionBase)]
    /\ rec = NoRecord
    /\ call = NoCall

NextAlign ==
    \/ \E address \in AlignAddresses : Align(address)
    \/ AlignAgain

SpecAlign == InitAlign /\ [][NextAlign]_vars

----------------------------------------------------------------------------
(* Properties. *)

CreateOps ==
    {"init_at_ptr", "init_at_offset", "write_to_ptr", "write_to_ptr_mut",
     "write_to_offset", "write_to_offset_mut"}

WriteOps == {"write_to_ptr", "write_to_ptr_mut", "write_to_offset", "write_to_offset_mut"}

(* what a caller observes through a reference to the record at h *)
View(mm, h) ==
    [metadata |-> get_metadata(mm, h),
     len |-> len(mm, h),
     slice |-> slice_elements(mm, to_slice(mm, h, overflow_checks))]

(* the bytes of the region outside the header of the record at h agree *)
SameOutsideHeader(m1, m2, h) ==
    \A a \in Addresses : (a < h \/ a >= h + MbufSize) => m1[a] = m2[a]

(* the header of the record at h agrees, byte for byte *)
SameHeader(m1, m2, h) == read_bytes(m1, h, MbufSize) = read_bytes(m2, h, MbufSize)

(* C1: after write_to_ptr_mut(p, m, data) on a region that is large enough *)
(* and aligned, the record viewed with at_ptr(p) has get_metadata() = m,   *)
(* len() = the number of elements of data, and to_slice() equal to data    *)
(* element for element.                                                    *)
C1_RoundTrip ==
    call.op = "write_to_ptr_mut" =>
        LET h == at_ptr(call.pointer)
            s == to_slice(mem, h, overflow_checks)
        IN  /\ call.ret = call.pointer
            /\ get_metadata(mem, h) = call.metadata
            /\ len(mem, h) = Len(call.data)
            /\ ~s.panic
            /\ s.len = Len(call.data)
            /\ slice_elements(mem, s) = call.data

(* a write of MaxLen elements, not all the same, behind padding *)
C1_Witness ==
    /\ call.op = "write_to_ptr_mut"
    /\ Len(call.data) = MaxLen
    /\ call.data[1] # call.data[MaxLen]
    /\ to_slice(mem, rec, overflow_checks).ptr > rec + MbufSize

(* C2: align(a, k) is the least multiple of k that is >= a: it is a        *)
(* multiple of k, it is >= a, it is less than k above a, and it is a when  *)
(* a is a multiple of k; for every address a and every alignment k.        *)
C2_AlignCorrect ==
    call.op = "align" =>
        /\ ~call.ret.panic
        /\ call.ret.val % call.align_size = 0
        /\ call.ret.val >= call.address
        /\ call.ret.val - call.address < call.align_size
        /\ (call.address % call.align_size = 0 => call.ret.val = call.address)

(* C3: set_metadata(new) returns the metadata held before the call and     *)
(* leaves get_metadata() = new; of two consecutive calls set_metadata(a),  *)
(* set_metadata(b), the second returns a and leaves get_metadata() = b.    *)
C3_MetadataReplacement ==
    [][ call'.op = "set_metadata" =>
            /\ call'.ret = get_metadata(mem, rec)
            /\ get_metadata(mem', rec') = call'.metadata
            /\ call'.again = (call.op = "set_metadata")
            /\ (call.op = "set_metadata" => call'.ret = call.metadata) ]_vars

(* the second of two consecutive calls has replaced the value the first *)
(* stored by a different one                                             *)
C3_Witness ==
    /\ call.op = "set_metadata"
    /\ call.again
    /\ call.ret \in MetaVals
    /\ call.ret # call.metadata
    /\ get_metadata(mem, rec) = call.metadata

(* C4: write_to_offset_mut(base, offset, m, data) followed by              *)
(* at_offset(base, offset) leaves the region and what is observed of the   *)
(* record (get_metadata, len, to_slice) as write_to_ptr_mut(base + offset, *)
(* m, data) followed by at_ptr(base + offset) does.                        *)
C4_OffsetEquivalence ==
    [][ call'.op = "write_to_offset_mut" =>
            LET p == call'.pointer + call'.offset
                r == write_to_ptr_mut(mem, p, call'.metadata, call'.data, overflow_checks)
            IN  /\ mem' = r.mem
                /\ call'.ret = r.ret
                /\ at_offset(call'.pointer, call'.offset) = at_ptr(p)
                /\ View(mem', at_offset(call'.pointer, call'.offset)) = View(r.mem, at_ptr(p)) ]_vars

(* a write at an offset that is not zero, of data that is not empty *)
C4_Witness ==
    /\ call.op = "write_to_offset_mut"
    /\ call.offset > 0
    /\ call.data # <<>>
    /\ View(mem, at_offset(call.pointer, call.offset)).slice = call.data

(* C5: the data never overlaps the header: the address deref and deref_mut *)
(* compute is >= the end of the header and a multiple of D's alignment,    *)
(* and a write to a data element leaves the header's bytes as they were.   *)
C5_DataAfterHeader ==
    /\ [](rec # NoRecord =>
            \A s \in {deref(mem, rec, overflow_checks), deref_mut(mem, rec, overflow_checks)} :
                /\ ~s.panic
                /\ ~s.overflow
                /\ s.ptr >= rec + MbufSize
                /\ s.ptr % tyD.align = 0)
    /\ [][ call'.op = "to_slice_mut" => SameHeader(mem, mem', rec) ]_vars

(* an element has been written in a record whose data lies behind padding *)
C5_Witness ==
    /\ call.op = "to_slice_mut"
    /\ call.ret > rec + MbufSize
    /\ slice_elements(mem, deref(mem, rec, overflow_checks))[call.offset + 1] = call.data[1]

(* C6: init_at_ptr(p, m, n) and init_at_offset(base, offset, m, n) write   *)
(* the header only: afterwards get_metadata() = m and len() = n, and every *)
(* byte of the region outside the header, the data's among them, is as it  *)
(* was before the call.                                                    *)
C6_InitWritesHeaderOnly ==
    [][ call'.op \in {"init_at_ptr", "init_at_offset"} =>
            LET h == call'.pointer + call'.offset IN
            /\ rec' = h
            /\ get_metadata(mem', h) = call'.metadata
            /\ len(mem', h) = call'.length
            /\ SameOutsideHeader(mem, mem', h) ]_vars

(* init_at_offset for MaxLen elements: the data is what the region held *)
C6_Witness ==
    /\ call.op = "init_at_offset"
    /\ call.offset > 0
    /\ call.length = MaxLen
    /\ LET s == deref(mem, rec, overflow_checks) IN
       Flatten(slice_elements(mem, s)) =
           [i \in 1..(MaxLen * tyD.size) |-> InitByte(s.ptr - RegionBase + i - 1)]

(* C7: is_empty() is true exactly when len() = 0; a record written with an *)
(* empty data sequence has len() = 0, is_empty() true and a to_slice() of  *)
(* no elements, and writing it changes no byte outside the header.         *)
C7_Emptiness ==
    /\ [](rec # NoRecord =>
            /\ is_empty(mem, rec) <=> (len(mem, rec) = 0)
            /\ (call.op \in WriteOps /\ call.data = <<>> =>
                    /\ len(mem, rec) = 0
                    /\ is_empty(mem, rec)
                    /\ to_slice(mem, rec, overflow_checks).len = 0
                    /\ slice_elements(mem, to_slice(mem, rec, overflow_checks)) = <<>>))
    /\ [][ call'.op \in WriteOps /\ call'.data = <<>> =>
               SameOutsideHeader(mem, mem', call'.pointer + call'.offset) ]_vars

(* an empty write has been made *)
C7_Witness ==
    /\ call.op \in WriteOps
    /\ call.data = <<>>
    /\ rec # NoRecord
    /\ is_empty(mem, rec)

(* C8, as stated: the data starts at the address after the length field,   *)
(* aligned up for D.                                                       *)
C8_DataAfterLengthField ==
    rec # NoRecord =>
        deref(mem, rec, overflow_checks).ptr
            = RoundUp(rec + LengthOffset + UsizeSize, tyD.align)

(* C8, amended: the data starts at the address after the header, aligned   *)
(* up for D, where the header ends at the end of the length field rounded  *)
(* up to the header's own alignment, the larger of M's and usize's.        *)
C8_DataAfterHeaderSize ==
    rec # NoRecord =>
        \A s \in {deref(mem, rec, overflow_checks), deref_mut(mem, rec, overflow_checks)} :
            /\ ~s.panic
            /\ s.ptr = RoundUp(RoundUp(rec + LengthOffset + UsizeSize,
                                       Max(tyM.align, UsizeAlign)), tyD.align)

(* a record whose header has padding after the length field *)
C8_Witness ==
    /\ rec # NoRecord
    /\ rec + LengthOffset + UsizeSize < rec + MbufSize
    /\ deref(mem, rec, overflow_checks).ptr = rec + MbufSize

(* C9: the length is fixed at construction: a record created with length n *)
(* has len() = n and a data view of n elements after any sequence of       *)
(* get_metadata, set_metadata, to_slice and writes of elements.            *)
C9_LengthFixed ==
    [][ /\ (call'.op \in CreateOps =>
                /\ len(mem', rec') = call'.length
                /\ deref(mem', rec', overflow_checks).len = call'.length)
        /\ (rec # NoRecord =>
                /\ rec' = rec
                /\ len(mem', rec') = len(mem, rec)
                /\ deref(mem', rec', overflow_checks).len = len(mem, rec)
                /\ Len(slice_elements(mem', to_slice(mem', rec', overflow_checks)))
                       = len(mem, rec)) ]_vars

(* the last element of a record of MaxLen elements has been written *)
C9_Witness ==
    /\ call.op = "to_slice_mut"
    /\ call.offset = MaxLen - 1
    /\ len(mem, rec) = MaxLen

(* C10: align is total: for every address of the usize range and every    *)
(* alignment, address + align_size - remainder stays in the usize range    *)
(* and the call returns.                                                   *)
C10_AlignTotal ==
    call.op = "align" =>
        /\ call.align_size > 0
        /\ ~call.ret.overflow
        /\ ~call.ret.panic

====
